---- MODULE Spec2Model ----
(***************************************************************************)
(* The TaDIY schedule editor (custom_components/tadiy/www/                 *)
(* tadiy-schedule-card.js) as a state machine: the editor's fields, the    *)
(* handlers that edit the day's blocks (addBlock, deleteBlock, the resize  *)
(* drag, the drop swap), validateBlocks, saveSchedule, loadSchedule with   *)
(* its default schedules and set hass; and the panel of tadiy-panel.js     *)
(* with its hub mode dropdown and its schedule editor dialog.              *)
(*                                                                         *)
(* A time string "HH:MM" is the pair <<h, m>>; array indices are JavaScript *)
(* indices (from 0), so the block at index i is editingBlocks[i + 1].      *)
(***************************************************************************)
EXTENDS Integers, Sequences, FiniteSets, TLC

VARIABLES
    editingBlocks,        \* this._editingBlocks
    selectedBlockIndex,   \* this._selectedBlockIndex (Null or an index from 0)
    isEditing,            \* this._isEditing
    domEditing,           \* the rendered shadow tree is the editing view
    errorText,            \* text of the #validation-error element
    reported,             \* the message the last handler passed to showError
    drag,                 \* the closure of an active resize gesture
    validation,           \* what the last validateBlocks call returned
    setScheduleCalls,     \* the set_schedule calls issued to the gateway
    savePending,          \* set_schedule calls not yet answered
    keyboardHandler,      \* the document-level keydown listener is installed
    lastEvent,            \* the handler that ran last
    uncaught,             \* the last handler ended in an uncaught TypeError
    steps,                \* handlers run so far
    selectedScheduleType, \* this._selectedScheduleType
    fetchPending,         \* the get_schedule calls not yet answered
    renders,              \* the render() calls the last handler made
    argument,             \* the index the last handler was called with
    previousBlocks,       \* this._editingBlocks when the last handler began
    hasOpenDialog,        \* the panel's this._hasOpenDialog
    dialogOpen,           \* the schedule editor dialog is in the panel's shadow tree
    dropdownVisible,      \* the panel's hub mode dropdown is displayed
    hubModePending,       \* the new modes of the panel's select_option calls not yet answered
    hubMode,              \* the panel's this._hubMode
    hassHubMode,          \* the state of the hub mode entity in the panel's this._hass
    suppressedChange,     \* a hass update with a relevant change returned early, no loadRooms() since
    selectedMode,         \* this._selectedMode
    loadedFor,            \* the variant of the get_schedule call this._editingBlocks came from
    typed,                \* the value of the input the last blur handler read
    clock                 \* a time on its way through timeToMinutes and minutesToTime

vars == <<editingBlocks, selectedBlockIndex, isEditing, domEditing, errorText,
          reported, drag, validation, setScheduleCalls, savePending, keyboardHandler,
          lastEvent, uncaught, steps, selectedScheduleType, fetchPending, renders,
          argument, previousBlocks, hasOpenDialog, dialogOpen, dropdownVisible,
          hubModePending, hubMode, hassHubMode, suppressedChange, selectedMode, loadedFor,
          typed, clock>>

panelVars == <<hasOpenDialog, dialogOpen, dropdownVisible, hubModePending, hubMode,
               hassHubMode, suppressedChange>>

editorVars == <<editingBlocks, selectedBlockIndex, isEditing, domEditing, errorText,
                reported, drag, validation, setScheduleCalls, savePending, keyboardHandler,
                uncaught, selectedScheduleType, fetchPending, renders, argument,
                previousBlocks, selectedMode, loadedFor, typed>>

cardVars == <<editorVars, clock>>

----------------------------------------------------------------------------
(* Program constants *)

Quarter == 15
DayMinutes == 1440
MinSplitDuration == 30
LargeBlockDuration == 120
LargeBlockSplit == 60
DefaultTemperature == 21
MinTemperature == 5
MaxTemperature == 30

(* Bounds of the model *)

MaxSteps == 4

\* time and temperature inputs are used among the first MaxTypingSteps events
MaxTypingSteps == 2
MaxCandidateBlocks == 2
MaxSaves == 2
MaxFetches == 2
MaxHubModeCalls == 2

Null == -1

----------------------------------------------------------------------------
(* Time unit *)

\* JavaScript's remainder: the sign of the dividend
JsRem(a, b) == IF a >= 0 THEN a % b ELSE -((-a) % b)

timeToMinutes(time) == time[1] * 60 + time[2]

\* the hour counted modulo 24
minutesToTimeWrapped(minutes) == <<(minutes \div 60) % 24, JsRem(minutes, 60)>>

minutesToTime(minutes) == <<minutes \div 60, JsRem(minutes, 60)>>

\* parseEndTime(time): no handler calls it
parseEndTime(time) == IF time = <<0, 0>> THEN <<24, 0>> ELSE time

----------------------------------------------------------------------------
(* Time strings, character by character.  The pair <<h, m>> stands for the
   string minutesToTime builds from h and m, and for what
   split(':').map(Number) makes of a string *)

Digits == <<"0", "1", "2", "3", "4", "5", "6", "7", "8", "9">>

DigitChars == {Digits[i] : i \in 1..Len(Digits)}

DigitValue(c) == (CHOOSE i \in 1..Len(Digits) : Digits[i] = c) - 1

\* String(n) of a number that is not negative
RECURSIVE StringOf(_)
StringOf(n) ==
    IF n < Len(Digits)
    THEN <<Digits[n + 1]>>
    ELSE StringOf(n \div Len(Digits)) \o <<Digits[(n % Len(Digits)) + 1]>>

\* no padding at all
padStartNone(text, targetLength, pad) == text

\* text.padStart(targetLength, pad)
RECURSIVE padStart(_, _, _)
padStart(text, targetLength, pad) ==
    IF Len(text) >= targetLength THEN text ELSE padStart(<<pad>> \o text, targetLength, pad)

\* Number(text) of a text of digits; Number('') is 0
RECURSIVE NumberOf(_)
NumberOf(text) ==
    IF text = <<>> THEN 0
    ELSE NumberOf(SubSeq(text, 1, Len(text) - 1)) * Len(Digits) + DigitValue(text[Len(text)])

\* the position of the first ':' in text; Len(text) + 1 when there is none
ColonAt(text) ==
    IF \E i \in 1..Len(text) : text[i] = ":"
    THEN CHOOSE i \in 1..Len(text) : text[i] = ":" /\ \A j \in 1..(i - 1) : text[j] # ":"
    ELSE Len(text) + 1

\* const [h, m] = text.split(':').map(Number), for a text with one ':' between
\* digits
SplitNumbers(text) ==
    <<NumberOf(SubSeq(text, 1, ColonAt(text) - 1)),
      NumberOf(SubSeq(text, ColonAt(text) + 1, Len(text)))>>

\* `${String(h).padStart(2, '0')}:${String(m).padStart(2, '0')}`
TimeText(time) ==
    padStart(StringOf(time[1]), 2, "0") \o <<":">> \o padStart(StringOf(time[2]), 2, "0")

\* the pattern without the alternatives of the hour: ^[0-9]?[0-9]:[0-5][0-9]$
TimeRegexTestAnyHour(text) ==
    LET n == Len(text)
    IN /\ n \in {4, 5}
       /\ text[n - 2] = ":"
       /\ text[n - 1] \in {"0", "1", "2", "3", "4", "5"}
       /\ text[n] \in DigitChars
       /\ \A i \in 1..(n - 3) : text[i] \in DigitChars

\* the pattern ^([01]?[0-9]|2[0-4]):([0-5][0-9])$
TimeRegexTest(text) ==
    LET n == Len(text)
        hours == SubSeq(text, 1, n - 3)
    IN /\ n \in {4, 5}
       /\ text[n - 2] = ":"
       /\ text[n - 1] \in {"0", "1", "2", "3", "4", "5"}
       /\ text[n] \in DigitChars
       /\ \/ Len(hours) = 1 /\ hours[1] \in DigitChars
          \/ Len(hours) = 2 /\ hours[1] \in {"0", "1"} /\ hours[2] \in DigitChars
          \/ Len(hours) = 2 /\ hours[1] = "2" /\ hours[2] \in {"0", "1", "2", "3", "4"}

\* text.trim()
RECURSIVE trim(_)
trim(text) ==
    IF text # <<>> /\ text[1] = " " THEN trim(Tail(text))
    ELSE IF text # <<>> /\ text[Len(text)] = " " THEN trim(SubSeq(text, 1, Len(text) - 1))
    ELSE text

\* the digits text starts with
RECURSIVE LeadingDigits(_)
LeadingDigits(text) ==
    IF text # <<>> /\ text[1] \in DigitChars
    THEN <<text[1]>> \o LeadingDigits(Tail(text))
    ELSE <<>>

\* parseFloat(text) of a text without a decimal point: the number its sign and
\* leading digits spell, NaN when there is no digit
parseFloat(text) ==
    LET trimmed == trim(text)
        negative == trimmed # <<>> /\ trimmed[1] = "-"
        digits == LeadingDigits(IF negative THEN Tail(trimmed) ELSE trimmed)
    IN [isNaN |-> digits = <<>>,
        number |-> IF negative THEN 0 - NumberOf(digits) ELSE NumberOf(digits)]

\* every string the pattern accepts
ClockTexts ==
    LET hourTexts == {<<c>> : c \in DigitChars}
                         \cup {<<a, b>> : a \in {"0", "1"}, b \in DigitChars}
                         \cup {<<"2", b>> : b \in {"0", "1", "2", "3", "4"}}
        minuteTexts == {<<a, b>> : a \in {"0", "1", "2", "3", "4", "5"}, b \in DigitChars}
    IN {h \o <<":">> \o m : h \in hourTexts, m \in minuteTexts}

\* Math.round(minutes / 15) * 15; Math.round(x) is floor(x + 1/2)
snapToGrid(minutes) == ((2 * minutes + Quarter) \div (2 * Quarter)) * Quarter

\* snapTimeToQuarter(timeStr), on strings
snapTimeToQuarter(timeStr) ==
    TimeText(minutesToTime(snapToGrid(timeToMinutes(SplitNumbers(timeStr)))))

Min2(a, b) == IF a < b THEN a ELSE b
Max2(a, b) == IF a > b THEN a ELSE b

----------------------------------------------------------------------------
(* Blocks *)

Block(s, e, t) == [start_time |-> s, end_time |-> e, temperature |-> t]

StartOf(b) == timeToMinutes(b.start_time)
EndOf(b) == timeToMinutes(b.end_time)

\* [...blocks].sort((a, b) => timeToMinutes(a.start_time) - timeToMinutes(b.start_time)):
\* the indices (from 1) of blocks in the order of the sorted copy; the sort is stable
SortOrder(blocks) ==
    LET n == Len(blocks)
        before(j, i) == \/ StartOf(blocks[j]) < StartOf(blocks[i])
                        \/ StartOf(blocks[j]) = StartOf(blocks[i]) /\ j < i
        rank(i) == Cardinality({j \in 1..n : before(j, i)}) + 1
    IN [k \in 1..n |-> CHOOSE i \in 1..n : rank(i) = k]

sortedBlocks(blocks) == [k \in 1..Len(blocks) |-> blocks[SortOrder(blocks)[k]]]

\* the position (from 1) in the sorted copy of the block at index i (from 1)
SortedIndexOf(blocks, i) == CHOOSE k \in 1..Len(blocks) : SortOrder(blocks)[k] = i

InsertAt(s, k, x) == SubSeq(s, 1, k) \o <<x>> \o SubSeq(s, k + 1, Len(s))
RemoveAt(s, k) == SubSeq(s, 1, k - 1) \o SubSeq(s, k + 1, Len(s))

----------------------------------------------------------------------------
(* addBlock, tadiy-schedule-card.js *)

Duration(b) == EndOf(b) - StartOf(b)

\* the forEach over this._editingBlocks itself, in the order of the array
LargestBlockUnsorted(blocks) ==
    LET n == Len(blocks)
        longest(k) == /\ Duration(blocks[k]) > 0
                      /\ \A j \in 1..n : Duration(blocks[j]) <= Duration(blocks[k])
                      /\ \A j \in 1..(k - 1) : Duration(blocks[j]) < Duration(blocks[k])
    IN IF \E k \in 1..n : longest(k)
       THEN CHOOSE k \in 1..n : longest(k)
       ELSE 0

\* the forEach over the sorted copy: the first block, in time order, of the
\* longest duration above 0; 0 when blockToSplit stays undefined
LargestBlock(blocks) ==
    LET n == Len(blocks)
        ord == SortOrder(blocks)
        longest(k) == /\ Duration(blocks[ord[k]]) > 0
                      /\ \A j \in 1..n : Duration(blocks[ord[j]]) <= Duration(blocks[ord[k]])
                      /\ \A j \in 1..(k - 1) : Duration(blocks[ord[j]]) < Duration(blocks[ord[k]])
    IN IF \E k \in 1..n : longest(k)
       THEN ord[CHOOSE k \in 1..n : longest(k)]
       ELSE 0

\* blockToSplit as an index from 1; 0 when it is undefined
blockToSplit(blocks, sel) ==
    IF sel # Null
    THEN IF sel < Len(blocks) THEN sel + 1 ELSE 0
    ELSE LargestBlock(blocks)

\* a block of 15 minutes taken to be the limit
TooSmallUnderQuarter(duration) == duration < Quarter

TooSmallToSplit(duration) == duration < MinSplitDuration

\* snappedMid
snappedMid(startMinutes, endMinutes) ==
    snapToGrid(startMinutes + (endMinutes - startMinutes) \div 2)

\* the end_time given to newBlock: blockToSplit.end_time, read after
\* this._editingBlocks[originalIndex].end_time = splitTime was executed on the
\* same object
NewBlockEnd(original, shortened) == shortened.end_time

\* blocks after the split of the block at index b (from 1)
SplitBlocks(blocks, b) ==
    LET splitTime == minutesToTime(snappedMid(StartOf(blocks[b]), EndOf(blocks[b])))
        shortened == [blocks[b] EXCEPT !.end_time = splitTime]
        newBlock == Block(splitTime, NewBlockEnd(blocks[b], shortened), DefaultTemperature)
    IN InsertAt([blocks EXCEPT ![b] = shortened], b, newBlock)

----------------------------------------------------------------------------
(* addBlock, the iteration in tadiy-room-comfort-card.js *)

splitMinutes(startMinutes, endMinutes) ==
    LET duration == endMinutes - startMinutes
        raw == IF duration >= LargeBlockDuration
               THEN startMinutes + LargeBlockSplit
               ELSE startMinutes + duration \div 2
        snapped == snapToGrid(raw)
        low == IF snapped <= startMinutes THEN startMinutes + Quarter ELSE snapped
    IN IF low >= endMinutes THEN endMinutes - Quarter ELSE low

\* the sorted copy with the new block spliced in after position k (from 1) of
\* the sorted copy
ComfortSplitBlocks(blocks, b) ==
    LET k == SortedIndexOf(blocks, b)
        splitTime == minutesToTime(splitMinutes(StartOf(blocks[b]), EndOf(blocks[b])))
        newBlock == Block(splitTime, blocks[b].end_time, DefaultTemperature)
        shortened == [blocks EXCEPT ![b].end_time = splitTime]
    IN InsertAt(sortedBlocks(shortened), k, newBlock)

----------------------------------------------------------------------------
(* deleteBlock *)

\* off by one: the guard lets the only block go
DeleteRefusedEmptyOnly(blocks) == Len(blocks) < 1

DeleteRefused(blocks) == Len(blocks) <= 1

\* this._editingBlocks.splice(index, 1)
Spliced(blocks, index) ==
    IF index < Len(blocks) THEN RemoveAt(blocks, index + 1) ELSE blocks

\* the gap closed from the other side: the later block pulled back
FillGapsFromNext(sorted) ==
    [i \in 1..Len(sorted) |->
        IF i > 1 /\ StartOf(sorted[i]) > EndOf(sorted[i - 1])
        THEN [sorted[i] EXCEPT !.start_time = sorted[i - 1].end_time]
        ELSE sorted[i]]

\* the gap-fill loop over the sorted copy
FillGaps(sorted) ==
    [i \in 1..Len(sorted) |->
        IF i < Len(sorted) /\ StartOf(sorted[i + 1]) > EndOf(sorted[i])
        THEN [sorted[i] EXCEPT !.end_time = sorted[i + 1].start_time]
        ELSE sorted[i]]

\* the last end left as it is
PinStartOnly(sorted) == [sorted EXCEPT ![1].start_time = <<0, 0>>]

\* first start to '00:00'; last end to '24:00' unless it is '24:00' or '23:59'
PinEnds(sorted) ==
    LET n == Len(sorted)
        first == [sorted EXCEPT ![1].start_time = <<0, 0>>]
    IN IF first[n].end_time \notin {<<24, 0>>, <<23, 59>>}
       THEN [first EXCEPT ![n].end_time = <<24, 0>>]
       ELSE first

\* sortedBlocks when deleteBlock(index) assigns it to this._editingBlocks
DeletedBlocks(blocks, index) == PinEnds(FillGaps(sortedBlocks(Spliced(blocks, index))))

ClampSelection(sel, n) == IF sel # Null /\ sel >= n THEN n - 1 ELSE sel

----------------------------------------------------------------------------
(* The resize drag: mousedown on a handle, mousemove, mouseup *)

\* stale: this._editingBlocks was replaced by a fetch since the handle press, so
\* blockData is no longer one of its blocks
NoDrag == [active |-> FALSE, index |-> 0, handleType |-> "none",
           startMinutes |-> 0, endMinutes |-> 0, delta |-> 0, stale |-> FALSE]

ClampLeft(prevStart, requested, endMinutes) ==
    Max2(prevStart + Quarter, Min2(requested, endMinutes - Quarter))

\* the neighbour's 15 minutes forgotten
ClampRightToNextEnd(startMinutes, requested, nextEnd) ==
    Max2(startMinutes + Quarter, Min2(requested, nextEnd))

ClampRight(startMinutes, requested, nextEnd) ==
    Max2(startMinutes + Quarter, Min2(requested, nextEnd - Quarter))

\* newStart of a left-handle move of the block at index i (from 1)
newStart(blocks, i, d) ==
    LET k == SortedIndexOf(blocks, i)
    IN IF k = 1
       THEN 0
       ELSE ClampLeft(StartOf(sortedBlocks(blocks)[k - 1]),
                      d.startMinutes + snapToGrid(d.delta), d.endMinutes)

\* the delta added to the end as the last move left it
newEndFromCurrent(blocks, i, d) ==
    LET k == SortedIndexOf(blocks, i)
    IN IF k = Len(blocks)
       THEN DayMinutes
       ELSE ClampRight(d.startMinutes, EndOf(blocks[i]) + snapToGrid(d.delta),
                       EndOf(sortedBlocks(blocks)[k + 1]))

\* newEnd of a right-handle move of the block at index i (from 1)
newEnd(blocks, i, d) ==
    LET k == SortedIndexOf(blocks, i)
    IN IF k = Len(blocks)
       THEN DayMinutes
       ELSE ClampRight(d.startMinutes, d.endMinutes + snapToGrid(d.delta),
                       EndOf(sortedBlocks(blocks)[k + 1]))

\* the neighbour's end_time left behind
ResizeLeftAlone(blocks, i, d) ==
    [blocks EXCEPT ![i].start_time = minutesToTime(newStart(blocks, i, d))]

ResizeLeft(blocks, i, d) ==
    LET k == SortedIndexOf(blocks, i)
        newTime == minutesToTime(newStart(blocks, i, d))
        moved == [blocks EXCEPT ![i].start_time = newTime]
    IN IF blocks[i].start_time = newTime THEN blocks
       ELSE IF k > 1 THEN [moved EXCEPT ![SortOrder(blocks)[k - 1]].end_time = newTime]
       ELSE moved

\* the next block taken from the array, not from the sorted copy
ResizeRightInArray(blocks, i, d) ==
    LET newTime == minutesToTime(newEnd(blocks, i, d))
        moved == [blocks EXCEPT ![i].end_time = newTime]
    IN IF blocks[i].end_time = newTime THEN blocks
       ELSE IF i < Len(blocks) THEN [moved EXCEPT ![i + 1].start_time = newTime]
       ELSE moved

ResizeRight(blocks, i, d) ==
    LET k == SortedIndexOf(blocks, i)
        newTime == minutesToTime(newEnd(blocks, i, d))
        moved == [blocks EXCEPT ![i].end_time = newTime]
    IN IF blocks[i].end_time = newTime THEN blocks
       ELSE IF k < Len(blocks) THEN [moved EXCEPT ![SortOrder(blocks)[k + 1]].start_time = newTime]
       ELSE moved

\* a move after a fetch replaced the blocks: findIndex returns -1.  The left
\* handle reads sortedBlocks[-2].start_time; the right handle takes
\* sortedBlocks[0] for the next block, and this._editingBlocks[index] may be
\* undefined
StaleMoveThrows(blocks, d) ==
    \/ d.handleType = "left"
    \/ d.index >= Len(blocks)

StaleResizeRight(blocks, d) ==
    LET first == SortOrder(blocks)[1]
        requested == d.endMinutes + snapToGrid(d.delta)
        newTime == minutesToTime(ClampRight(d.startMinutes, requested, EndOf(blocks[first])))
        moved == [blocks EXCEPT ![d.index + 1].end_time = newTime]
    IN IF blocks[d.index + 1].end_time = newTime THEN blocks
       ELSE [moved EXCEPT ![first].start_time = newTime]

----------------------------------------------------------------------------
(* loadSchedule *)

ScheduleTypes == {"weekday", "weekend", "daily"}

\* the options of the hub mode entity
HubModes == {"normal", "homeoffice", "off"}

\* the key of a schedule at the gateway
Variant(mode, scheduleType) == [mode |-> mode, schedule_type |-> scheduleType]

NoVariant == Variant("none", "none")

\* a get_schedule call for a variant, and whether the card was in editing mode
\* when it went out
Call(mode, scheduleType, editing) ==
    [mode |-> mode, schedule_type |-> scheduleType, editing |-> editing]

VariantOf(call) == Variant(call.mode, call.schedule_type)

\* the mode buttons of generateModeButtons: normal with weekday and weekend,
\* every other mode but manual and off with daily
ButtonVariants ==
    {Variant("normal", scheduleType) : scheduleType \in ScheduleTypes \ {"daily"}}
        \cup {Variant(mode, "daily") : mode \in HubModes \ {"normal", "manual", "off"}}

getDefaultSchedule(scheduleType) ==
    IF scheduleType = "weekday"
    THEN <<Block(<<0, 0>>, <<6, 0>>, 18), Block(<<6, 0>>, <<8, 0>>, 21),
           Block(<<8, 0>>, <<16, 0>>, 18), Block(<<16, 0>>, <<22, 0>>, 21),
           Block(<<22, 0>>, <<23, 59>>, 18)>>
    ELSE IF scheduleType = "weekend"
    THEN <<Block(<<0, 0>>, <<8, 0>>, 18), Block(<<8, 0>>, <<23, 0>>, 21),
           Block(<<23, 0>>, <<23, 59>>, 18)>>
    ELSE <<Block(<<0, 0>>, <<6, 0>>, 18), Block(<<6, 0>>, <<22, 0>>, 21),
           Block(<<22, 0>>, <<23, 59>>, 18)>>

\* what callWS resolves with: null, a response without blocks, or a response
\* with a list of blocks
NoResult == [kind |-> "null", blocks |-> <<>>]
NoBlocksField == [kind |-> "no blocks", blocks |-> <<>>]
WithBlocks(blocks) == [kind |-> "blocks", blocks |-> blocks]

\* result && result.response && result.response.blocks: an array is truthy,
\* the empty one included
HasBlocks(result) == result.kind = "blocks"

\* this._editingBlocks after the try block of loadSchedule
LoadedBlocks(result, scheduleType) ==
    IF HasBlocks(result) THEN result.blocks ELSE getDefaultSchedule(scheduleType)

----------------------------------------------------------------------------
(* validateBlocks *)

MinOf(S) == CHOOSE x \in S : \A y \in S : x <= y

NotValidated == [valid |-> FALSE, error |-> "not validated", block |-> 0]

validateBlocks(blocks) ==
    IF Len(blocks) = 0
    THEN [valid |-> FALSE, error |-> "At least one block is required", block |-> 0]
    ELSE LET sorted == sortedBlocks(blocks)
             n == Len(sorted)
             overlapping == {i \in 1..(n - 1) : EndOf(sorted[i]) > StartOf(sorted[i + 1])}
             empty(i) == StartOf(sorted[i]) >= EndOf(sorted[i])
             outOfRange(i) == \/ sorted[i].temperature < MinTemperature
                              \/ sorted[i].temperature > MaxTemperature
             bad == {i \in 1..n : empty(i) \/ outOfRange(i)}
         IN IF overlapping # {}
            THEN [valid |-> FALSE, error |-> "overlaps with next block",
                  block |-> MinOf(overlapping)]
            ELSE IF bad # {}
            THEN [valid |-> FALSE,
                  error |-> IF empty(MinOf(bad)) THEN "End time must be after start time"
                            ELSE "Temperature must be between 5 and 30",
                  block |-> MinOf(bad)]
            ELSE [valid |-> TRUE, error |-> "", block |-> 0]

\* the return after showError forgotten
SaveNeverBlocked(result) == FALSE

SaveBlocked(result) == ~result.valid

----------------------------------------------------------------------------
(* Rendering and messages *)

\* showError(message): the element exists only in the editing view
showError(message) ==
    /\ errorText' = IF domEditing THEN message ELSE errorText
    /\ reported' = message

Silent == reported' = ""

\* render(): the shadow tree is rebuilt from the fields as they will be, the
\* message element starts empty, and the editing view installs the keydown
\* listener
render(editing) ==
    /\ domEditing' = editing
    /\ errorText' = ""
    /\ keyboardHandler' = (keyboardHandler \/ editing)
    /\ renders' = 1

NoRender ==
    /\ UNCHANGED <<domEditing, keyboardHandler>>
    /\ renders' = 0

\* a handler of the card, called with an index or with Null: the card's
\* handlers write no field of the panel and do not change the schedule type
HandledTyping(name, index, input) ==
    /\ lastEvent' = name
    /\ steps' = steps + 1
    /\ argument' = index
    /\ previousBlocks' = editingBlocks
    /\ typed' = input
    /\ UNCHANGED <<selectedScheduleType, selectedMode, loadedFor, clock>>
    /\ UNCHANGED panelVars

HandledAt(name, index) == HandledTyping(name, index, Null)

Handled(name) == HandledAt(name, Null)

GatewayIdle == UNCHANGED <<validation, setScheduleCalls, savePending, fetchPending>>

----------------------------------------------------------------------------
(* Handlers of tadiy-schedule-card.js *)

\* click on a block editor row or on a timeline block
SelectBlock(index) ==
    /\ steps < MaxSteps
    /\ domEditing /\ ~drag.active
    /\ index \in 0..(Len(editingBlocks) - 1)
    /\ selectedBlockIndex' = index
    /\ render(isEditing)
    /\ uncaught' = FALSE
    /\ Silent
    /\ Handled("select")
    /\ GatewayIdle
    /\ UNCHANGED <<editingBlocks, isEditing, drag>>

\* the Add Block button
addBlock ==
    /\ steps < MaxSteps
    /\ domEditing /\ ~drag.active
    /\ LET b == blockToSplit(editingBlocks, selectedBlockIndex)
       IN IF b = 0
          THEN \* blockToSplit.start_time of undefined
               /\ uncaught' = TRUE
               /\ Silent
               /\ NoRender
               /\ UNCHANGED <<editingBlocks, selectedBlockIndex, errorText>>
          ELSE IF TooSmallToSplit(Duration(editingBlocks[b]))
          THEN /\ showError("Block is too small to split (minimum 30 minutes needed)")
               /\ uncaught' = FALSE
               /\ NoRender
               /\ UNCHANGED <<editingBlocks, selectedBlockIndex>>
          ELSE /\ editingBlocks' = SplitBlocks(editingBlocks, b)
               /\ selectedBlockIndex' = b
               /\ uncaught' = FALSE
               /\ Silent
               /\ render(isEditing)
    /\ Handled("addBlock")
    /\ GatewayIdle
    /\ UNCHANGED <<isEditing, drag>>

\* deleteBlock(index)
deleteBlock(index) ==
    /\ IF DeleteRefused(editingBlocks)
       THEN /\ showError("Cannot delete the last block")
            /\ uncaught' = FALSE
            /\ NoRender
            /\ UNCHANGED <<editingBlocks, selectedBlockIndex>>
       ELSE IF Spliced(editingBlocks, index) = <<>>
       THEN \* sortedBlocks[0].start_time of undefined, after the splice
            /\ editingBlocks' = <<>>
            /\ uncaught' = TRUE
            /\ Silent
            /\ NoRender
            /\ UNCHANGED <<selectedBlockIndex, errorText>>
       ELSE /\ editingBlocks' = DeletedBlocks(editingBlocks, index)
            /\ selectedBlockIndex' =
                   ClampSelection(selectedBlockIndex, Len(editingBlocks'))
            /\ uncaught' = FALSE
            /\ Silent
            /\ render(isEditing)
    /\ HandledAt("deleteBlock", index)
    /\ GatewayIdle
    /\ UNCHANGED <<isEditing, drag>>

\* a block's delete button
DeleteClick(index) ==
    /\ steps < MaxSteps
    /\ domEditing /\ ~drag.active
    /\ index \in 0..(Len(editingBlocks) - 1)
    /\ deleteBlock(index)

\* the Delete key, through the document's keydown listener
DeleteKey ==
    /\ steps < MaxSteps
    /\ keyboardHandler /\ ~drag.active
    /\ selectedBlockIndex # Null
    /\ deleteBlock(selectedBlockIndex)

\* the upper bound only
ClampTemperatureAbove(temp) ==
    IF temp.isNaN THEN MinTemperature
    ELSE IF temp.number > MaxTemperature THEN MaxTemperature
    ELSE temp.number

\* if (isNaN(temp) || temp < 5) temp = 5; if (temp > 30) temp = 30
ClampTemperature(temp) ==
    LET raised == IF temp.isNaN \/ temp.number < MinTemperature THEN MinTemperature
                  ELSE temp.number
    IN IF raised > MaxTemperature THEN MaxTemperature ELSE raised

\* the time the blur handler stores for a value of the pattern
CommittedTime(field, value) ==
    LET snapped == snapTimeToQuarter(value)
    IN SplitNumbers(IF field = "end_time" /\ snapped = <<"0", "0", ":", "0", "0">>
                    THEN <<"2", "4", ":", "0", "0">>
                    ELSE snapped)

\* blur of the input of field in the editor row of the block at index, with
\* value in it
Blur(index, field, value) ==
    /\ steps < MaxTypingSteps
    /\ domEditing /\ ~drag.active
    /\ index \in 0..(Len(editingBlocks) - 1)
    /\ IF field = "temperature"
       THEN /\ editingBlocks' = [editingBlocks EXCEPT ![index + 1].temperature =
                                                         ClampTemperature(parseFloat(value))]
            /\ Silent
            /\ render(isEditing)
       ELSE IF ~TimeRegexTest(trim(value))
       THEN \* the input shows the stored value again
            /\ showError("Invalid time format. Use HH:MM (e.g., 08:30)")
            /\ NoRender
            /\ UNCHANGED editingBlocks
       ELSE /\ editingBlocks' = [editingBlocks EXCEPT ![index + 1][field] =
                                                         CommittedTime(field, trim(value))]
            /\ Silent
            /\ render(isEditing)
    /\ uncaught' = FALSE
    /\ HandledTyping("blur", index, [field |-> field, value |-> value])
    /\ GatewayIdle
    /\ UNCHANGED <<selectedBlockIndex, isEditing, drag>>

\* the dragged block written over the target, the target lost
SwappedOver(blocks, draggedIndex, targetIndex) ==
    [blocks EXCEPT ![targetIndex + 1] = blocks[draggedIndex + 1]]

\* const temp = blocks[draggedIndex]; blocks[draggedIndex] = blocks[targetIndex];
\* blocks[targetIndex] = temp
Swapped(blocks, draggedIndex, targetIndex) ==
    [blocks EXCEPT ![draggedIndex + 1] = blocks[targetIndex + 1],
                   ![targetIndex + 1] = blocks[draggedIndex + 1]]

\* drop of the block at draggedIndex on the block at targetIndex
Drop(draggedIndex, targetIndex) ==
    /\ steps < MaxSteps
    /\ domEditing /\ ~drag.active
    /\ draggedIndex \in 0..(Len(editingBlocks) - 1)
    /\ targetIndex \in 0..(Len(editingBlocks) - 1)
    /\ IF draggedIndex # targetIndex
       THEN /\ editingBlocks' = Swapped(editingBlocks, draggedIndex, targetIndex)
            /\ render(isEditing)
       ELSE /\ UNCHANGED <<editingBlocks, errorText>>
            /\ NoRender
    /\ uncaught' = FALSE
    /\ Silent
    /\ HandledAt("drop", <<draggedIndex, targetIndex>>)
    /\ GatewayIdle
    /\ UNCHANGED <<selectedBlockIndex, isEditing, drag>>

\* mousedown on a resize handle of the block at index
MouseDown(index, handleType) ==
    /\ steps < MaxSteps
    /\ domEditing /\ ~drag.active
    /\ index \in 0..(Len(editingBlocks) - 1)
    /\ drag' = [active |-> TRUE, index |-> index, handleType |-> handleType,
                startMinutes |-> StartOf(editingBlocks[index + 1]),
                endMinutes |-> EndOf(editingBlocks[index + 1]),
                delta |-> 0, stale |-> FALSE]
    /\ uncaught' = FALSE
    /\ Silent
    /\ Handled("mousedown")
    /\ GatewayIdle
    /\ NoRender
    /\ UNCHANGED <<editingBlocks, selectedBlockIndex, isEditing, errorText>>

\* onMouseMove, deltaMinutes away from the gesture's origin
onMouseMove(deltaMinutes) ==
    /\ steps < MaxSteps
    /\ drag.active
    /\ drag' = [drag EXCEPT !.delta = deltaMinutes]
    /\ IF drag.stale
       THEN /\ uncaught' = StaleMoveThrows(editingBlocks, drag)
            /\ editingBlocks' = IF StaleMoveThrows(editingBlocks, drag)
                                THEN editingBlocks
                                ELSE StaleResizeRight(editingBlocks, drag')
       ELSE /\ uncaught' = FALSE
            /\ editingBlocks' =
                   IF drag.handleType = "left"
                   THEN ResizeLeft(editingBlocks, drag.index + 1, drag')
                   ELSE ResizeRight(editingBlocks, drag.index + 1, drag')
    /\ Silent
    /\ Handled("mousemove")
    /\ GatewayIdle
    /\ NoRender
    /\ UNCHANGED <<selectedBlockIndex, isEditing, errorText>>

\* the release puts the dragged block back to where the handle press found it
onMouseUpRestoring ==
    /\ steps < MaxSteps
    /\ drag.active
    /\ drag' = NoDrag
    /\ editingBlocks' =
           [editingBlocks EXCEPT ![drag.index + 1].start_time = minutesToTime(drag.startMinutes),
                                 ![drag.index + 1].end_time = minutesToTime(drag.endMinutes)]
    /\ render(isEditing)
    /\ uncaught' = FALSE
    /\ Silent
    /\ Handled("mouseup")
    /\ GatewayIdle
    /\ UNCHANGED <<selectedBlockIndex, isEditing>>

\* onMouseUp
onMouseUp ==
    /\ steps < MaxSteps
    /\ drag.active
    /\ drag' = NoDrag
    /\ render(isEditing)
    /\ uncaught' = FALSE
    /\ Silent
    /\ Handled("mouseup")
    /\ GatewayIdle
    /\ UNCHANGED <<editingBlocks, selectedBlockIndex, isEditing>>

\* the Save button: saveSchedule up to its await
saveSchedule ==
    /\ steps < MaxSteps
    /\ domEditing /\ ~drag.active
    /\ Len(setScheduleCalls) < MaxSaves
    /\ validation' = validateBlocks(editingBlocks)
    /\ IF SaveBlocked(validation')
       THEN /\ showError(validation'.error)
            /\ UNCHANGED <<setScheduleCalls, savePending>>
       ELSE /\ setScheduleCalls' = Append(setScheduleCalls, editingBlocks)
            /\ savePending' = savePending + 1
            /\ Silent
            /\ UNCHANGED errorText
    /\ uncaught' = FALSE
    /\ Handled("saveSchedule")
    /\ UNCHANGED fetchPending
    /\ NoRender
    /\ UNCHANGED <<editingBlocks, selectedBlockIndex, isEditing, drag>>

\* the set_schedule call resolves: the rest of the try block; render() then
\* replaces the element showError wrote to
SaveResolved ==
    /\ steps < MaxSteps
    /\ savePending > 0
    /\ savePending' = savePending - 1
    /\ isEditing' = FALSE
    /\ render(FALSE)
    /\ reported' = "Schedule saved successfully"
    /\ uncaught' = FALSE
    /\ Handled("saveResolved")
    /\ UNCHANGED fetchPending
    /\ UNCHANGED <<editingBlocks, selectedBlockIndex, drag, validation, setScheduleCalls>>

\* the catch block issuing the call once more
SaveRejectedRetrying ==
    /\ steps < MaxSteps
    /\ savePending > 0
    /\ setScheduleCalls' = Append(setScheduleCalls, editingBlocks)
    /\ showError("Failed to save schedule")
    /\ uncaught' = FALSE
    /\ Handled("saveRejected")
    /\ NoRender
    /\ UNCHANGED <<editingBlocks, selectedBlockIndex, isEditing, drag, validation,
                   savePending, fetchPending>>

\* the set_schedule call rejects: the catch block; the message is
\* 'Failed to save schedule: ' followed by the error's text
SaveRejected ==
    /\ steps < MaxSteps
    /\ savePending > 0
    /\ savePending' = savePending - 1
    /\ showError("Failed to save schedule")
    /\ uncaught' = FALSE
    /\ Handled("saveRejected")
    /\ UNCHANGED fetchPending
    /\ NoRender
    /\ UNCHANGED <<editingBlocks, selectedBlockIndex, isEditing, drag, validation,
                   setScheduleCalls>>

\* the Edit Schedule button
EditClick ==
    /\ steps < MaxSteps
    /\ ~domEditing
    /\ isEditing' = TRUE
    /\ selectedBlockIndex' = Null
    /\ render(TRUE)
    /\ uncaught' = FALSE
    /\ Silent
    /\ Handled("edit")
    /\ GatewayIdle
    /\ UNCHANGED <<editingBlocks, drag>>

\* the Back button
BackClick ==
    /\ steps < MaxSteps
    /\ domEditing /\ ~drag.active
    /\ isEditing' = FALSE
    /\ selectedBlockIndex' = Null
    /\ render(FALSE)
    /\ uncaught' = FALSE
    /\ Silent
    /\ Handled("back")
    /\ GatewayIdle
    /\ UNCHANGED <<editingBlocks, drag>>

\* the Add Block button, in the iteration of tadiy-room-comfort-card.js
addBlockComfort ==
    /\ steps < MaxSteps
    /\ domEditing /\ ~drag.active
    /\ LET b == blockToSplit(editingBlocks, selectedBlockIndex)
       IN IF b = 0
          THEN /\ showError("No block to split")
               /\ NoRender
               /\ UNCHANGED <<editingBlocks, selectedBlockIndex>>
          ELSE IF TooSmallToSplit(Duration(editingBlocks[b]))
          THEN /\ showError("Block is too small to split (minimum 30 minutes needed)")
               /\ NoRender
               /\ UNCHANGED <<editingBlocks, selectedBlockIndex>>
          ELSE /\ editingBlocks' = ComfortSplitBlocks(editingBlocks, b)
               /\ selectedBlockIndex' = SortedIndexOf(editingBlocks, b)
               /\ Silent
               /\ render(isEditing)
    /\ uncaught' = FALSE
    /\ Handled("addBlock")
    /\ GatewayIdle
    /\ UNCHANGED <<isEditing, drag>>

----------------------------------------------------------------------------
(* The inline time dropdowns of tadiy-room-comfort-card.js *)

\* getTimeConstraints(index, isEndTime), on this._editingBlocks as blocks
getTimeConstraints(blocks, index, isEndTime) ==
    IF isEndTime
    THEN [minTime |-> minutesToTime(StartOf(blocks[index + 1]) + Quarter),
          maxTime |-> IF index < Len(blocks) - 1
                      THEN minutesToTime(Max2(0, EndOf(blocks[index + 2]) - Quarter))
                      ELSE <<24, 0>>]
    ELSE [minTime |-> IF index > 0
                      THEN minutesToTime(StartOf(blocks[index]) + Quarter)
                      ELSE <<0, 0>>,
          maxTime |-> minutesToTime(Max2(0, EndOf(blocks[index + 1]) - Quarter))]

isHourAllowed(hour, minute, constraints) ==
    /\ hour * 60 + minute >= timeToMinutes(constraints.minTime)
    /\ hour * 60 + minute <= timeToMinutes(constraints.maxTime)

isMinuteAllowed(hour, minute, constraints) ==
    /\ hour * 60 + minute >= timeToMinutes(constraints.minTime)
    /\ hour * 60 + minute <= timeToMinutes(constraints.maxTime)

\* renderTimeInput: the first start and the last end have no dropdown
isFixed(blocks, index, isEndTime) ==
    \/ index = 0 /\ ~isEndTime
    \/ index = Len(blocks) - 1 /\ isEndTime

\* the option newValue of the hours or minutes dropdown is rendered without
\* the class disabled
OptionEnabled(blocks, index, isEndTime, partType, newValue) ==
    LET value == blocks[index + 1][IF isEndTime THEN "end_time" ELSE "start_time"]
        constraints == getTimeConstraints(blocks, index, isEndTime)
    IN IF partType = "hours"
       THEN /\ newValue \in 0..(IF isEndTime THEN 24 ELSE 23)
            /\ isHourAllowed(newValue, 0, constraints)
       ELSE /\ newValue \in {0, 15, 30, 45}
            /\ isMinuteAllowed(value[1], newValue, constraints)

\* newTime of the option click
PickedTime(time, partType, newValue) ==
    LET newHours == IF partType = "hours" THEN newValue ELSE time[1]
        newMinutes == IF partType = "hours" THEN time[2] ELSE newValue
    IN <<newHours, IF newHours = 24 THEN 0 ELSE newMinutes>>

\* the blocks after the option click
PickedBlocks(blocks, index, isEndTime, partType, newValue) ==
    LET field == IF isEndTime THEN "end_time" ELSE "start_time"
        newTime == PickedTime(blocks[index + 1][field], partType, newValue)
        written == [blocks EXCEPT ![index + 1][field] = newTime]
    IN IF isEndTime /\ index < Len(blocks) - 1
       THEN [written EXCEPT ![index + 2].start_time = newTime]
       ELSE IF ~isEndTime /\ index > 0
       THEN [written EXCEPT ![index].end_time = newTime]
       ELSE written

\* click on an enabled option of the hours or minutes dropdown of the start
\* or end time of the block at index
TimeOptionClick(index, isEndTime, partType, newValue) ==
    /\ steps < MaxTypingSteps
    /\ domEditing /\ ~drag.active
    /\ index \in 0..(Len(editingBlocks) - 1)
    /\ ~isFixed(editingBlocks, index, isEndTime)
    /\ OptionEnabled(editingBlocks, index, isEndTime, partType, newValue)
    /\ editingBlocks' = PickedBlocks(editingBlocks, index, isEndTime, partType, newValue)
    /\ render(isEditing)
    /\ uncaught' = FALSE
    /\ Silent
    /\ HandledTyping("timeOption", index,
                     [isEndTime |-> isEndTime, part |-> partType, value |-> newValue])
    /\ GatewayIdle
    /\ UNCHANGED <<selectedBlockIndex, isEditing, drag>>

\* bookkeeping of a step that is not a click on an index
Noted(name) ==
    /\ lastEvent' = name
    /\ steps' = steps + 1
    /\ argument' = Null
    /\ previousBlocks' = editingBlocks
    /\ typed' = Null
    /\ UNCHANGED clock
    /\ UNCHANGED panelVars

\* loadSchedule up to its await: a get_schedule call goes out
LoadRequested(mode, scheduleType, editing) ==
    /\ Len(fetchPending) < MaxFetches
    /\ fetchPending' = Append(fetchPending, Call(mode, scheduleType, editing))
    /\ UNCHANGED <<editingBlocks, validation, setScheduleCalls, savePending>>

\* a mode button: selectSchedule(mode, scheduleType)
selectSchedule(mode, scheduleType) ==
    /\ steps < MaxSteps
    /\ ~drag.active
    /\ selectedMode' = mode
    /\ selectedScheduleType' = scheduleType
    /\ isEditing' = FALSE
    /\ LoadRequested(mode, scheduleType, FALSE)
    /\ NoRender
    /\ uncaught' = FALSE
    /\ Silent
    /\ Noted("selectSchedule")
    /\ UNCHANGED <<selectedBlockIndex, drag, errorText, loadedFor>>

\* the Reset button
ResetClick ==
    /\ steps < MaxSteps
    /\ domEditing /\ ~drag.active
    /\ LoadRequested(selectedMode, selectedScheduleType, isEditing)
    /\ NoRender
    /\ uncaught' = FALSE
    /\ Silent
    /\ Noted("reset")
    /\ UNCHANGED <<selectedBlockIndex, isEditing, drag, errorText, selectedScheduleType,
                   selectedMode, loadedFor>>

\* the rest of loadSchedule once the blocks are assigned, k being the call
\* answered: render(); an active gesture keeps the block of the replaced list
Loaded(blocks, k) ==
    /\ editingBlocks' = blocks
    /\ loadedFor' = VariantOf(fetchPending[k])
    /\ fetchPending' = RemoveAt(fetchPending, k)
    /\ render(isEditing)
    /\ drag' = IF drag.active THEN [drag EXCEPT !.stale = TRUE] ELSE drag
    /\ uncaught' = FALSE
    /\ Silent
    /\ UNCHANGED <<selectedBlockIndex, isEditing, selectedScheduleType, selectedMode,
                   validation, setScheduleCalls, savePending>>

\* the k-th pending get_schedule call resolves with result
FetchResolved(k, result) ==
    /\ steps < MaxSteps
    /\ k \in 1..Len(fetchPending)
    /\ Loaded(LoadedBlocks(result, selectedScheduleType), k)
    /\ Noted("fetchResolved")

\* the k-th pending get_schedule call rejects: the catch block
FetchRejected(k) ==
    /\ steps < MaxSteps
    /\ k \in 1..Len(fetchPending)
    /\ Loaded(getDefaultSchedule(selectedScheduleType), k)
    /\ Noted("fetchRejected")

\* set hass, after the first one: render()
HassUpdate ==
    /\ steps < MaxSteps
    /\ render(isEditing)
    /\ uncaught' = FALSE
    /\ Silent
    /\ Noted("hass")
    /\ GatewayIdle
    /\ UNCHANGED <<editingBlocks, selectedBlockIndex, isEditing, drag, selectedScheduleType,
                   selectedMode, loadedFor>>

\* the 5 s timer of showError
ErrorTimeout ==
    /\ steps < MaxSteps
    /\ errorText # ""
    /\ errorText' = ""
    /\ uncaught' = FALSE
    /\ Silent
    /\ Handled("errorTimeout")
    /\ GatewayIdle
    /\ NoRender
    /\ UNCHANGED <<editingBlocks, selectedBlockIndex, isEditing, drag>>

----------------------------------------------------------------------------
(* timeToMinutes and minutesToTime on a time of its own *)

\* timeToMinutes of the string: the one given, or the one minutesToTime made
ClockToMinutes ==
    /\ clock.stage \in {"text", "formatted"}
    /\ clock' = IF clock.stage = "text"
                THEN [clock EXCEPT !.stage = "parsed",
                                   !.minutes = timeToMinutes(SplitNumbers(clock.text))]
                ELSE [clock EXCEPT !.stage = "back",
                                   !.back = timeToMinutes(SplitNumbers(clock.result))]
    /\ UNCHANGED <<editorVars, panelVars, lastEvent, steps>>

\* minutesToTime of the minutes: the ones given, or the ones timeToMinutes made
ClockToTime ==
    /\ clock.stage \in {"minutes", "parsed"}
    /\ clock' = [clock EXCEPT !.stage = IF clock.stage = "minutes" THEN "formatted"
                                        ELSE "round",
                              !.result = TimeText(minutesToTime(clock.minutes))]
    /\ UNCHANGED <<editorVars, panelVars, lastEvent, steps>>

----------------------------------------------------------------------------
(* Handlers of tadiy-panel.js *)

\* a step of the panel: no field of a card is written
PanelNoted(name) ==
    /\ lastEvent' = name
    /\ steps' = steps + 1
    /\ UNCHANGED cardVars

\* closeDropdownHandler, the capture-phase click listener on document, for a
\* click whose target is neither in the mode button nor in the dropdown.  A
\* listener on document sees a click from inside the shadow tree with the
\* shadow host as its target, so this is every click on the panel or in the
\* dialog; it runs before the listener of the element clicked.
closeDropdownHandler(flag) == FALSE

\* the panel's render(): innerHTML replaces the shadow tree, the dialog
\* appended to it included, and the dropdown is rendered hidden
PanelRender ==
    /\ dialogOpen' = FALSE
    /\ dropdownVisible' = FALSE

\* set hass of the panel, after the first one: hass carries the hub mode
\* entity's state, and changed tells whether another TaDIY entity changed;
\* _shouldRerender compares the old hass with the new one
PanelHass(state, changed) ==
    /\ steps < MaxSteps
    /\ hassHubMode' = state
    /\ IF hasOpenDialog
       THEN /\ suppressedChange' = (suppressedChange \/ state # hassHubMode \/ changed)
            /\ UNCHANGED <<dialogOpen, dropdownVisible, hubMode>>
       ELSE IF state # hassHubMode \/ changed
       THEN \* loadRooms(), render()
            /\ hubMode' = state
            /\ suppressedChange' = FALSE
            /\ PanelRender
       ELSE UNCHANGED <<dialogOpen, dropdownVisible, hubMode, suppressedChange>>
    /\ UNCHANGED <<hasOpenDialog, hubModePending>>
    /\ PanelNoted("panelHass")

\* click on the hub mode button: closeDropdownHandler hides the dropdown, then
\* the button's listener finds it hidden and shows it
ToggleDropdown ==
    /\ steps < MaxSteps
    /\ ~dialogOpen
    /\ LET isVisible == FALSE
       IN /\ dropdownVisible' = ~isVisible
          /\ hasOpenDialog' = ~isVisible
    /\ UNCHANGED <<dialogOpen, hubModePending, hubMode, hassHubMode, suppressedChange>>
    /\ PanelNoted("toggleDropdown")

\* click on a hub mode option: closeDropdownHandler, then the option's
\* listener, which calls select_option when the mode is another one
OptionClick(newMode) ==
    /\ steps < MaxSteps
    /\ dropdownVisible /\ ~dialogOpen
    /\ Len(hubModePending) < MaxHubModeCalls
    /\ hasOpenDialog' = closeDropdownHandler(hasOpenDialog)
    /\ dropdownVisible' = FALSE
    /\ hubModePending' = IF newMode # hubMode
                         THEN Append(hubModePending, newMode)
                         ELSE hubModePending
    /\ UNCHANGED <<dialogOpen, hubMode, hassHubMode, suppressedChange>>
    /\ PanelNoted("optionClick")

\* the k-th pending select_option call resolves: the mode is taken, the
\* dropdown hidden, the flag cleared and the panel rendered
OptionResolved(k) ==
    /\ steps < MaxSteps
    /\ k \in 1..Len(hubModePending)
    /\ hubMode' = hubModePending[k]
    /\ hubModePending' = RemoveAt(hubModePending, k)
    /\ hasOpenDialog' = FALSE
    /\ PanelRender
    /\ UNCHANGED <<hassHubMode, suppressedChange>>
    /\ PanelNoted("optionResolved")

\* the k-th pending select_option call rejects: alert()
OptionRejected(k) ==
    /\ steps < MaxSteps
    /\ k \in 1..Len(hubModePending)
    /\ hubModePending' = RemoveAt(hubModePending, k)
    /\ UNCHANGED <<hasOpenDialog, dialogOpen, dropdownVisible, hubMode, hassHubMode, suppressedChange>>
    /\ PanelNoted("optionRejected")

\* click on a room's Edit Schedule button: closeDropdownHandler, then
\* showScheduleEditor
showScheduleEditor ==
    /\ steps < MaxSteps
    /\ ~dialogOpen
    /\ dropdownVisible' = FALSE
    /\ dialogOpen' = TRUE
    /\ hasOpenDialog' = TRUE
    /\ UNCHANGED <<hubModePending, hubMode, hassHubMode, suppressedChange>>
    /\ PanelNoted("showScheduleEditor")

\* click on the dialog's close button or on its backdrop: closeDialog
closeDialog ==
    /\ steps < MaxSteps
    /\ dialogOpen
    /\ hasOpenDialog' = FALSE
    /\ dialogOpen' = FALSE
    /\ dropdownVisible' = FALSE
    /\ UNCHANGED <<hubModePending, hubMode, hassHubMode, suppressedChange>>
    /\ PanelNoted("closeDialog")

\* any other click inside the dialog (its header, its body, the card in it)
DialogClick ==
    /\ steps < MaxSteps
    /\ dialogOpen
    /\ hasOpenDialog' = closeDropdownHandler(hasOpenDialog)
    /\ dropdownVisible' = FALSE
    /\ UNCHANGED <<dialogOpen, hubModePending, hubMode, hassHubMode, suppressedChange>>
    /\ PanelNoted("dialogClick")

\* a click on the panel outside the mode button, the dropdown and the edit
\* buttons, the dialog closed
OutsideClick ==
    /\ steps < MaxSteps
    /\ ~dialogOpen
    /\ hasOpenDialog' = closeDropdownHandler(hasOpenDialog)
    /\ dropdownVisible' = FALSE
    /\ UNCHANGED <<dialogOpen, hubModePending, hubMode, hassHubMode, suppressedChange>>
    /\ PanelNoted("outsideClick")

----------------------------------------------------------------------------
(* Initial states *)

\* the boundaries, in minutes, the initial schedules are cut at: one block;
\* a last block of 30 minutes; 00:00-06:00-22:00-24:00; 00:00-08:00-16:00-24:00;
\* blocks of 15 and 30 minutes; a first block of 45 minutes
InitCuts == {{}, {1410}, {360, 1320}, {480, 960}, {15, 45}, {45}}

Ascending(S) ==
    [k \in 1..Cardinality(S) |-> CHOOSE x \in S : Cardinality({y \in S : y < x}) = k - 1]

\* the schedule that partitions the day at the boundaries of cuts; block k is
\* given the temperature 16 + k
Partition(cuts) ==
    LET inner == Ascending(cuts)
        n == Cardinality(cuts) + 1
        from(k) == IF k = 1 THEN 0 ELSE inner[k - 1]
        to(k) == IF k = n THEN DayMinutes ELSE inner[k]
    IN [k \in 1..n |-> Block(minutesToTime(from(k)), minutesToTime(to(k)), 16 + k)]

\* schedules as the gateway returns them when they satisfy Invariants A, B, C
ValidSchedules == {Partition(cuts) : cuts \in InitCuts}

CandidateTimes == {<<0, 0>>, <<6, 0>>, <<7, 0>>, <<24, 0>>}
CandidateBlocks ==
    {Block(s, e, t) : s \in CandidateTimes, e \in CandidateTimes, t \in {18, 31}}

\* any list of blocks a fetch may have returned or typing may have produced
CandidateSchedules ==
    UNION {[1..n -> CandidateBlocks] : n \in 0..MaxCandidateBlocks}

\* no time is on its way
NoClock == [stage |-> "none", text |-> <<>>, minutes |-> 0, result |-> <<>>, back |-> 0]

\* a number of minutes to format, a string to parse
ClockOfMinutes(minutes) == [NoClock EXCEPT !.stage = "minutes", !.minutes = minutes]
ClockOfText(text) == [NoClock EXCEPT !.stage = "text", !.text = text]

\* the panel's fields as its constructor sets them; its dropdown is rendered
\* hidden
PanelClosed ==
    /\ hasOpenDialog = FALSE
    /\ dialogOpen = FALSE
    /\ dropdownVisible = FALSE
    /\ hubModePending = <<>>
    /\ hubMode = "normal"
    /\ hassHubMode = "normal"
    /\ suppressedChange = FALSE

\* the editing view of a loaded schedule, pending get_schedule calls not yet
\* answered, event the last click
EditingWith(blocks, pending, event) ==
    /\ editingBlocks = blocks
    /\ selectedBlockIndex = Null
    /\ isEditing = TRUE
    /\ domEditing = TRUE
    /\ errorText = ""
    /\ reported = ""
    /\ drag = NoDrag
    /\ validation = NotValidated
    /\ setScheduleCalls = <<>>
    /\ savePending = 0
    /\ keyboardHandler = TRUE
    /\ lastEvent = event
    /\ uncaught = FALSE
    /\ steps = 0
    /\ selectedScheduleType = "weekday"
    /\ selectedMode = "normal"
    /\ fetchPending = [k \in 1..pending |-> Call("normal", "weekday", TRUE)]
    /\ loadedFor = Variant("normal", "weekday")
    /\ renders = 1
    /\ argument = Null
    /\ previousBlocks = blocks
    /\ typed = Null
    /\ PanelClosed

Editing(blocks) == EditingWith(blocks, 0, "edit") /\ clock = NoClock

\* a time between 00:00 and 24:00 to format and parse back, or a string of the
\* pattern to parse and format back
InitClock ==
    /\ EditingWith(Partition({}), 0, "edit")
    /\ clock \in {ClockOfMinutes(minutes) : minutes \in 0..DayMinutes}
                  \cup {ClockOfText(text) : text \in ClockTexts}

Init == \E blocks \in ValidSchedules : Editing(blocks)

\* the card after setConfig and the first set hass: initializeDefaults took
\* the mode from the hub mode entity's state and the schedule type from the day
\* of the week, loadAvailableModes rendered, loadSchedule is at its await, and
\* set hass rendered again
FirstHass ==
    /\ editingBlocks = <<>>
    /\ selectedBlockIndex = Null
    /\ isEditing = FALSE
    /\ domEditing = FALSE
    /\ errorText = ""
    /\ reported = ""
    /\ drag = NoDrag
    /\ validation = NotValidated
    /\ setScheduleCalls = <<>>
    /\ savePending = 0
    /\ keyboardHandler = FALSE
    /\ lastEvent = "hass"
    /\ uncaught = FALSE
    /\ steps = 0
    /\ selectedScheduleType \in {"weekday", "weekend"}
    /\ selectedMode \in HubModes
    /\ fetchPending = <<Call(selectedMode, selectedScheduleType, FALSE)>>
    /\ loadedFor = NoVariant
    /\ renders = 2
    /\ argument = Null
    /\ previousBlocks = <<>>
    /\ typed = Null
    /\ clock = NoClock
    /\ PanelClosed

\* the card after its first set hass on a weekday in the hub mode normal, a
\* click on the Weekend button and the answer to the call of that click: the
\* call of the first set hass is not yet answered
FirstLoadLate(blocks) ==
    /\ editingBlocks = blocks
    /\ selectedBlockIndex = Null
    /\ isEditing = FALSE
    /\ domEditing = FALSE
    /\ errorText = ""
    /\ reported = ""
    /\ drag = NoDrag
    /\ validation = NotValidated
    /\ setScheduleCalls = <<>>
    /\ savePending = 0
    /\ keyboardHandler = FALSE
    /\ lastEvent = "fetchResolved"
    /\ uncaught = FALSE
    /\ steps = 0
    /\ selectedScheduleType = "weekend"
    /\ selectedMode = "normal"
    /\ fetchPending = <<Call("normal", "weekday", FALSE)>>
    /\ loadedFor = Variant("normal", "weekend")
    /\ renders = 1
    /\ argument = Null
    /\ previousBlocks = <<>>
    /\ typed = Null
    /\ clock = NoClock
    /\ PanelClosed

\* the first set hass, with or without a click on Weekend answered before it,
\* or the editing view of a loaded schedule in which Reset was clicked and the
\* get_schedule call is not yet answered
InitLoad ==
    \/ FirstHass
    \/ \E blocks \in {Partition({}), Partition({360, 1320})} : FirstLoadLate(blocks)
    \/ /\ \E blocks \in {Partition({}), Partition({360, 1320})} :
              EditingWith(blocks, 1, "reset")
       /\ clock = NoClock

\* the panel after its first set hass rendered it; no card is in it
InitPanel ==
    /\ FirstHass
    /\ selectedScheduleType = "weekday"
    /\ selectedMode = "normal"

\* what a get_schedule call may resolve with
FetchResults ==
    {NoResult, NoBlocksField, WithBlocks(<<>>)}
        \cup {WithBlocks(Partition(cuts)) : cuts \in {{}, {360, 1320}}}

\* the editor on a valid schedule of two or three blocks
InitPicker ==
    \E cuts \in {{45}, {360, 1320}, {405, 495}} : Editing(Partition(cuts))

\* the editor on the default schedule, or on a day of three blocks
InitType == \E blocks \in {Partition({}), Partition({360, 1320})} : Editing(blocks)

InitSave == \E blocks \in CandidateSchedules : Editing(blocks)

----------------------------------------------------------------------------
(* Specifications *)

\* pointer distances from the gesture's origin, in minutes: they snap to
\* -1440, -15, 15 and 1440
Deltas == {-DayMinutes, -8, 22, DayMinutes}

Resize ==
    \/ \E index \in 0..(Len(editingBlocks) - 1), handleType \in {"left", "right"} :
           MouseDown(index, handleType)
    \/ \E deltaMinutes \in Deltas : onMouseMove(deltaMinutes)
    \/ onMouseUp

\* the structural edits that keep a valid schedule valid
NextResize ==
    \/ Resize
    \/ \E index \in 0..(Len(editingBlocks) - 1) : SelectBlock(index)
    \/ \E index \in 0..(Len(editingBlocks) - 1) : DeleteClick(index)
    \/ DeleteKey
    \/ \E draggedIndex \in 0..(Len(editingBlocks) - 1), targetIndex \in 0..(Len(editingBlocks) - 1) :
           Drop(draggedIndex, targetIndex)

NextEdit ==
    \/ NextResize
    \/ addBlock
    \/ ErrorTimeout

NextComfort ==
    \/ NextResize
    \/ addBlockComfort
    \/ ErrorTimeout

\* the inline dropdowns of the comfort card, its Add Block and its delete buttons
NextPicker ==
    \/ \E index \in 0..(Len(editingBlocks) - 1), isEndTime \in BOOLEAN, newValue \in 0..24 :
           TimeOptionClick(index, isEndTime, "hours", newValue)
    \/ \E index \in 0..(Len(editingBlocks) - 1), isEndTime \in BOOLEAN,
          newValue \in {0, 15, 30, 45} :
           TimeOptionClick(index, isEndTime, "minutes", newValue)
    \/ addBlockComfort
    \/ \E index \in 0..(Len(editingBlocks) - 1) : DeleteClick(index)

\* what the user leaves in a time input: 7:38, 23:53, 24:30 and 00:00 with a
\* blank before it are of the pattern, 25:00 and 8h are not
TypedTimes ==
    {<<"7", ":", "3", "8">>, <<"2", "3", ":", "5", "3">>, <<"2", "4", ":", "3", "0">>,
     <<" ", "0", "0", ":", "0", "0">>, <<"2", "5", ":", "0", "0">>, <<"8", "h">>}

\* what the user leaves in a temperature input: nothing, 4, 5, 21, 30, 31
TypedTemperatures == {<<>>, <<"4">>, <<"5">>, <<"2", "1">>, <<"3", "0">>, <<"3", "1">>}

Typing ==
    \/ \E index \in 0..(Len(editingBlocks) - 1), field \in {"start_time", "end_time"},
          value \in TypedTimes : Blur(index, field, value)
    \/ \E index \in 0..(Len(editingBlocks) - 1), value \in TypedTemperatures :
           Blur(index, "temperature", value)

NextType ==
    \/ Typing
    \/ \E index \in 0..(Len(editingBlocks) - 1) : DeleteClick(index)
    \/ addBlock
    \/ saveSchedule
    \/ SaveResolved
    \/ SaveRejected
    \/ ErrorTimeout

NextSave ==
    \/ saveSchedule
    \/ SaveResolved
    \/ SaveRejected
    \/ ErrorTimeout

Next ==
    \/ NextEdit
    \/ saveSchedule
    \/ SaveResolved
    \/ SaveRejected
    \/ EditClick
    \/ BackClick

\* the editor of tadiy-schedule-card.js on a loaded valid schedule
Spec == Init /\ [][Next]_vars

\* the editor with its time and temperature inputs
SpecType == InitType /\ [][NextType]_vars

NextLoad ==
    \/ Next
    \/ \E variant \in ButtonVariants : selectSchedule(variant.mode, variant.schedule_type)
    \/ ResetClick
    \/ \E k \in 1..Len(fetchPending), result \in FetchResults : FetchResolved(k, result)
    \/ \E k \in 1..Len(fetchPending) : FetchRejected(k)
    \/ HassUpdate

\* the card from its first set hass on: loading, editing and saving
SpecLoad == InitLoad /\ [][NextLoad]_vars

NextPanel ==
    \/ \E state \in HubModes, changed \in BOOLEAN : PanelHass(state, changed)
    \/ ToggleDropdown
    \/ \E newMode \in HubModes : OptionClick(newMode)
    \/ \E k \in 1..Len(hubModePending) : OptionResolved(k)
    \/ \E k \in 1..Len(hubModePending) : OptionRejected(k)
    \/ showScheduleEditor
    \/ closeDialog
    \/ DialogClick
    \/ OutsideClick

NextClock ==
    \/ ClockToMinutes
    \/ ClockToTime

\* timeToMinutes and minutesToTime after one another, both ways
SpecClock == InitClock /\ [][NextClock]_vars

\* the panel of tadiy-panel.js: hass updates, the hub mode dropdown and the
\* schedule editor dialog
SpecPanel == InitPanel /\ [][NextPanel]_vars

\* split, delete, resize and swap on a valid schedule
SpecEdit == Init /\ [][NextEdit]_vars

\* the same with addBlock as tadiy-room-comfort-card.js has it
SpecComfort == Init /\ [][NextComfort]_vars

\* the time dropdowns of tadiy-room-comfort-card.js on a valid schedule
SpecPicker == InitPicker /\ [][NextPicker]_vars

\* delete, resize and swap on a valid schedule
SpecResize == Init /\ [][NextResize]_vars

\* saveSchedule on any list of blocks
SpecSave == InitSave /\ [][NextSave]_vars

----------------------------------------------------------------------------
(* The schedule invariants *)

\* Invariant A: sorted by start, the day is covered without gap or overlap
InvariantA(blocks) ==
    /\ Len(blocks) >= 1
    /\ LET sorted == sortedBlocks(blocks)
           n == Len(sorted)
       IN /\ StartOf(sorted[1]) = 0
          /\ EndOf(sorted[n]) = DayMinutes
          /\ \A i \in 1..(n - 1) : EndOf(sorted[i]) = StartOf(sorted[i + 1])
          /\ \A i \in 1..n : StartOf(sorted[i]) < EndOf(sorted[i])

OnGrid(minutes) == minutes % Quarter = 0

\* Invariant B: boundaries on the grid, durations positive multiples of 15
InvariantB(blocks) ==
    \A i \in 1..Len(blocks) :
        /\ OnGrid(StartOf(blocks[i]))
        /\ OnGrid(EndOf(blocks[i]))
        /\ Duration(blocks[i]) > 0

\* no block is shorter than 15 minutes
NoShortBlock(blocks) == \A i \in 1..Len(blocks) : Duration(blocks[i]) >= Quarter

----------------------------------------------------------------------------
(* Claims *)

\* C1: between gestures, after any sequence of addBlock, deleteBlock, resize
\* drags and drop swaps on a valid schedule, the blocks sorted by start satisfy
\* Invariant A.  addBlock breaks it: see C9.
C1_InvariantA_Kept == ~drag.active => InvariantA(editingBlocks)

\* C2: between gestures, after any sequence of addBlock, deleteBlock, resize
\* drags and drop swaps on a valid schedule, every boundary is a multiple of 15
\* minutes and every duration a positive multiple of 15; a drag only writes grid
\* values.  addBlock breaks it: see C9.
C2_InvariantB_Kept ==
    /\ ~drag.active => InvariantB(editingBlocks)
    /\ lastEvent = "mousemove" =>
           /\ OnGrid(StartOf(editingBlocks[drag.index + 1]))
           /\ OnGrid(EndOf(editingBlocks[drag.index + 1]))

\* C3: deleteBlock on a schedule of one block shows the error and leaves blocks
\* and selection as they are, and the schedule never has fewer than one block.
C3_LastBlockKept ==
    /\ [](Len(editingBlocks) >= 1)
    /\ [][(lastEvent' = "deleteBlock" /\ Len(editingBlocks) = 1) =>
              /\ editingBlocks' = editingBlocks
              /\ selectedBlockIndex' = selectedBlockIndex
              /\ reported' = "Cannot delete the last block"]_vars

\* deleteBlock was refused on the only block
C3_Witness ==
    /\ lastEvent = "deleteBlock"
    /\ Len(editingBlocks) = 1
    /\ reported = "Cannot delete the last block"
    /\ errorText = "Cannot delete the last block"

C5_EndsPinned ==
    ~drag.active =>
        /\ StartOf(editingBlocks[1]) = 0
        /\ EndOf(editingBlocks[Len(editingBlocks)]) = DayMinutes

\* C6: saveSchedule issues set_schedule only when validateBlocks returned valid
\* for the current blocks; when it returned invalid no call is made, the blocks
\* stay as they are and the editor stays in editing mode.
C6_SaveGated ==
    [][/\ setScheduleCalls' # setScheduleCalls =>
              /\ lastEvent' = "saveSchedule"
              /\ validation' = validateBlocks(editingBlocks)
              /\ validation'.valid
              /\ setScheduleCalls' = Append(setScheduleCalls, editingBlocks)
       /\ (lastEvent' = "saveSchedule" /\ ~validateBlocks(editingBlocks).valid) =>
              /\ setScheduleCalls' = setScheduleCalls
              /\ savePending' = savePending
              /\ editingBlocks' = editingBlocks
              /\ isEditing' = isEditing]_vars

\* a save was refused: the message is shown and no call was made
C6_Witness ==
    /\ lastEvent = "saveSchedule"
    /\ ~validation.valid
    /\ errorText = validation.error
    /\ setScheduleCalls = <<>>
    /\ isEditing

\* some block, in time order, does not end where the next one starts
HasGapOrOverlap(blocks) ==
    \E i \in 1..(Len(blocks) - 1) :
        EndOf(sortedBlocks(blocks)[i]) # StartOf(sortedBlocks(blocks)[i + 1])

\* C7: validateBlocks returns invalid for every schedule in which, sorted by
\* start, a block's end differs from the next block's start.  Only
\* end > next start is tested, so a gap passes.
C7_GapsAndOverlapsRejected ==
    (lastEvent = "saveSchedule" /\ HasGapOrOverlap(editingBlocks)) => ~validation.valid

\* the earliest block starts at 00:00 and the latest ends at 24:00
CoversDay(blocks) ==
    /\ Len(blocks) >= 1
    /\ StartOf(sortedBlocks(blocks)[1]) = 0
    /\ \E i \in 1..Len(blocks) : EndOf(blocks[i]) = DayMinutes
    /\ \A i \in 1..Len(blocks) : EndOf(blocks[i]) <= DayMinutes

\* C8: validateBlocks returns invalid for every schedule that does not cover
\* the day, so every schedule handed to set_schedule covers 0..1440.
\* validateBlocks never looks at the first start or the last end.
C8_CoverageRequired ==
    /\ (lastEvent = "saveSchedule" /\ ~CoversDay(editingBlocks)) => ~validation.valid
    /\ \A k \in 1..Len(setScheduleCalls) : CoversDay(setScheduleCalls[k])

\* new is old with one block [s,e) of temperature t replaced by [s,p) of
\* temperature t followed by [p,e) of the default temperature, the second one
\* at index sel (from 0)
IsSplitOf(old, new, sel) ==
    /\ Len(new) = Len(old) + 1
    /\ sel \in 1..Len(old)
    /\ LET first == new[sel]
           second == new[sel + 1]
           merged == RemoveAt([new EXCEPT ![sel].end_time = second.end_time], sel + 1)
       IN /\ StartOf(first) < EndOf(first)
          /\ first.end_time = second.start_time
          /\ StartOf(second) < EndOf(second)
          /\ second.temperature = DefaultTemperature
          /\ sortedBlocks(merged) = sortedBlocks(old)

\* C9: an addBlock that splits replaces one block [s,e) of temperature t by
\* [s,p) of temperature t and [p,e) of temperature 21 with s < p < e, the count
\* grows by one and the second block is selected.  tadiy-schedule-card.js gives
\* the new block the end p: it reads end_time after overwriting it.
C9_SplitInTwo ==
    [][(lastEvent' = "addBlock" /\ editingBlocks' # editingBlocks) =>
           IsSplitOf(editingBlocks, editingBlocks', selectedBlockIndex')]_vars

\* the split point the policy names: 60 minutes after the start of a block of
\* 120 minutes or more, else the midpoint; snapped; at least 15 minutes a side
PolicySplitPoint(startMinutes, endMinutes) ==
    LET duration == endMinutes - startMinutes
        raw == IF duration >= LargeBlockDuration
               THEN startMinutes + LargeBlockSplit
               ELSE startMinutes + duration \div 2
    IN Max2(startMinutes + Quarter, Min2(snapToGrid(raw), endMinutes - Quarter))

\* C10: an addBlock that splits a block [s,e) splits it at the policy's point.
\* tadiy-schedule-card.js always takes the midpoint.
C10_SplitPolicy ==
    [][(lastEvent' = "addBlock" /\ Len(editingBlocks') = Len(editingBlocks) + 1) =>
           LET b == blockToSplit(editingBlocks, selectedBlockIndex)
           IN StartOf(editingBlocks'[selectedBlockIndex' + 1]) =
                  PolicySplitPoint(StartOf(editingBlocks[b]), EndOf(editingBlocks[b]))]_vars

\* C11: addBlock on a block shorter than 30 minutes reports the too-small error
\* and leaves the blocks and the selection exactly as they were.
C11_TooSmallUntouched ==
    [][LET b == blockToSplit(editingBlocks, selectedBlockIndex)
       IN (lastEvent' = "addBlock" /\ b # 0 /\ Duration(editingBlocks[b]) < MinSplitDuration) =>
              /\ editingBlocks' = editingBlocks
              /\ selectedBlockIndex' = selectedBlockIndex
              /\ reported' = "Block is too small to split (minimum 30 minutes needed)"
              /\ errorText' = reported']_vars

\* addBlock was refused on a selected block of 15 minutes
C11_Witness ==
    /\ lastEvent = "addBlock"
    /\ selectedBlockIndex # Null
    /\ Duration(editingBlocks[selectedBlockIndex + 1]) = Quarter
    /\ errorText = "Block is too small to split (minimum 30 minutes needed)"
    /\ reported = errorText

\* the blocks of a valid schedule, in time order, without the block at index
\* (from 0), the hole healed: the earlier neighbour's end moved to the later
\* neighbour's start, a new first block started at 00:00, a new last block
\* ended at 24:00
HealedWithout(blocks, index) ==
    LET old == sortedBlocks(blocks)
        n == Len(old)
        k == SortedIndexOf(blocks, index + 1)
        kept(j) == IF j < k THEN old[j] ELSE old[j + 1]
    IN [j \in 1..(n - 1) |->
           IF k = 1 /\ j = 1 THEN [kept(j) EXCEPT !.start_time = <<0, 0>>]
           ELSE IF k = n /\ j = n - 1 THEN [kept(j) EXCEPT !.end_time = <<24, 0>>]
           ELSE IF 1 < k /\ k < n /\ j = k - 1
                THEN [kept(j) EXCEPT !.end_time = old[k + 1].start_time]
           ELSE kept(j)]

\* C12: deleteBlock(index) on a valid schedule of two blocks or more removes
\* exactly the block at index and heals the hole by gap-fill; no temperature
\* changes and no other boundary moves.
C12_DeleteHeals ==
    [][(lastEvent' = "deleteBlock" /\ Len(editingBlocks) >= 2 /\ InvariantA(editingBlocks)) =>
           editingBlocks' = HealedWithout(editingBlocks, argument')]_vars

\* a middle block of a valid schedule was deleted
C12_Witness ==
    /\ lastEvent = "deleteBlock"
    /\ InvariantA(previousBlocks)
    /\ Len(previousBlocks) >= 3
    /\ SortedIndexOf(previousBlocks, argument + 1) \in 2..(Len(previousBlocks) - 1)
    /\ Len(editingBlocks) = Len(previousBlocks) - 1
    /\ editingBlocks = HealedWithout(previousBlocks, argument)

\* C13: addBlock splitting a block of a valid schedule, then deleteBlock on the
\* second half (the block addBlock selected), gives back the original schedule:
\* the same boundaries and temperatures, in time order.
C13_SplitThenDelete ==
    [][(/\ lastEvent = "addBlock"
        /\ Len(editingBlocks) = Len(previousBlocks) + 1
        /\ InvariantA(previousBlocks)
        /\ lastEvent' = "deleteBlock"
        /\ argument' = selectedBlockIndex) =>
           editingBlocks' = sortedBlocks(previousBlocks)]_vars

\* the block addBlock made out of a valid schedule (the only one of 21 degrees)
\* was deleted right after, and the schedule is valid again
C13_Witness ==
    /\ lastEvent = "deleteBlock"
    /\ steps = 2
    /\ Len(editingBlocks) = Len(previousBlocks) - 1
    /\ previousBlocks[argument + 1].temperature = DefaultTemperature
    /\ \A i \in 1..Len(editingBlocks) : editingBlocks[i].temperature # DefaultTemperature
    /\ InvariantA(editingBlocks)

\* in time order every block ends where the next one starts
Contiguous(blocks) ==
    \A k \in 1..(Len(blocks) - 1) :
        EndOf(sortedBlocks(blocks)[k]) = StartOf(sortedBlocks(blocks)[k + 1])

C16_NeverEmptyAfterFetch ==
    /\ lastEvent = "fetchRejected" =>
           editingBlocks = getDefaultSchedule(selectedScheduleType)
    /\ lastEvent \in {"fetchResolved", "fetchRejected"} => editingBlocks # <<>>

\* C17: the three default schedules (weekday 5 blocks, weekend 3, other 3)
\* satisfy Invariants A, B and C.  Each ends at '23:59'.
C17_DefaultsValid ==
    (lastEvent = "fetchRejected") =>
        /\ Len(editingBlocks) = IF selectedScheduleType = "weekday" THEN 5 ELSE 3
        /\ InvariantA(editingBlocks)
        /\ InvariantB(editingBlocks)
        /\ \A i \in 1..Len(editingBlocks) :
               /\ editingBlocks[i].temperature >= MinTemperature
               /\ editingBlocks[i].temperature <= MaxTemperature

C19_NoRenderDuringDrag ==
    /\ drag.active => renders = 0
    /\ lastEvent = "mouseup" => renders = 1

\* C20: from the opening of the schedule editor dialog to its closing
\* _hasOpenDialog stays true and no hass update re-renders the panel, whatever
\* is clicked in between.  closeDropdownHandler clears the flag on any click in
\* the dialog.
C20_DialogSuppressesRender ==
    /\ [](dialogOpen => hasOpenDialog)
    /\ [][(dialogOpen /\ lastEvent' = "panelHass") => dialogOpen']_vars

\* C21: timeToMinutes(minutesToTime(m)) is m for every m from 0 to 1440, and
\* 1440 is formatted as 24:00.
C21_MinutesRoundTrip ==
    clock.stage = "back" =>
        /\ clock.back = clock.minutes
        /\ clock.minutes = DayMinutes => clock.result = <<"2", "4", ":", "0", "0">>

\* 1440 went through minutesToTime and timeToMinutes
C21_Witness ==
    /\ clock.stage = "back"
    /\ clock.minutes = DayMinutes
    /\ clock.result = <<"2", "4", ":", "0", "0">>
    /\ clock.back = DayMinutes

\* C22, as amended: minutesToTime(timeToMinutes(s)) is s with its hour padded to
\* two digits, for every string s of the pattern; it is s itself when the hour
\* of s has two digits.
C22_TextRoundTripPadded ==
    clock.stage = "round" =>
        clock.result = IF Len(clock.text) = 4 THEN <<"0">> \o clock.text ELSE clock.text

\* 7:30 went through timeToMinutes and minutesToTime and came back as 07:30
C22_Witness ==
    /\ clock.stage = "round"
    /\ clock.text = <<"7", ":", "3", "0">>
    /\ clock.minutes = 450
    /\ clock.result = <<"0", "7", ":", "3", "0">>

\* C22, as stated: minutesToTime(timeToMinutes(s)) is s for every string s of
\* the pattern, 00:00 and 24:00 apart.
C22_TextRoundTrip ==
    (/\ clock.stage = "round"
     /\ clock.text \notin {<<"0", "0", ":", "0", "0">>, <<"2", "4", ":", "0", "0">>})
        => clock.result = clock.text

\* C23: a typed time of the pattern is stored, after snapping, as a multiple of
\* 15 minutes between 00:00 and 24:00, and 24:00 only as an end time.
C23_TypedTimeOnGrid ==
    (/\ lastEvent = "blur"
     /\ typed.field # "temperature"
     /\ trim(typed.value) \in ClockTexts)
        => LET stored == timeToMinutes(editingBlocks[argument + 1][typed.field])
           IN /\ stored \in 0..DayMinutes
              /\ stored % Quarter = 0
              /\ stored = DayMinutes => typed.field = "end_time"

\* C24: a typed time that is not of the pattern is rejected: no block changes
\* and the error message is shown.
C24_BadTimeRejected ==
    (/\ lastEvent = "blur"
     /\ typed.field # "temperature"
     /\ trim(typed.value) \notin ClockTexts)
        => /\ editingBlocks = previousBlocks
           /\ reported = "Invalid time format. Use HH:MM (e.g., 08:30)"
           /\ errorText = reported

\* 25:00 was left in the end time input of the second of three blocks
C24_Witness ==
    /\ lastEvent = "blur"
    /\ argument = 1
    /\ typed = [field |-> "end_time", value |-> <<"2", "5", ":", "0", "0">>]
    /\ editingBlocks = Partition({360, 1320})
    /\ errorText = "Invalid time format. Use HH:MM (e.g., 08:30)"

\* C29: a committed temperature is stored between 5 and 30: 5 for a value
\* below 5 or not a number, 30 for a value above 30, the value itself
\* otherwise; no time and no other temperature changes.
C29_TemperatureClamped ==
    (lastEvent = "blur" /\ typed.field = "temperature")
        => LET temp == parseFloat(typed.value)
               stored == editingBlocks[argument + 1].temperature
           IN /\ stored \in MinTemperature..MaxTemperature
              /\ (temp.isNaN \/ temp.number < MinTemperature) => stored = MinTemperature
              /\ (~temp.isNaN /\ temp.number > MaxTemperature) => stored = MaxTemperature
              /\ (~temp.isNaN /\ temp.number \in MinTemperature..MaxTemperature)
                     => stored = temp.number
              /\ editingBlocks =
                     [previousBlocks EXCEPT ![argument + 1].temperature = stored]

\* 4 was left in the temperature input of the second of three blocks, which
\* was at 18 degrees, and 5 is stored
C29_Witness ==
    /\ lastEvent = "blur"
    /\ argument = 1
    /\ typed = [field |-> "temperature", value |-> <<"4">>]
    /\ previousBlocks = Partition({360, 1320})
    /\ editingBlocks[2].temperature = MinTemperature
    /\ editingBlocks[1] = previousBlocks[1]
    /\ editingBlocks[3] = previousBlocks[3]

\* the blocks with every end time of 00:00 read as 24:00
EndsParsed(blocks) ==
    [i \in 1..Len(blocks) |-> [blocks[i] EXCEPT !.end_time = parseEndTime(@)]]

\* C25: an end time of 00:00 counts as 24:00 in the arithmetic of the
\* validation: the blocks validate as they do with 24:00 written out.
C25_MidnightEndIsEndOfDay ==
    lastEvent = "saveSchedule" => validation = validateBlocks(EndsParsed(editingBlocks))

\* C26: the selected variant is well-formed: a mode other than normal goes
\* with the schedule type daily, and normal with weekday or weekend.
C26_VariantWellFormed ==
    IF selectedMode = "normal"
    THEN selectedScheduleType \in {"weekday", "weekend"}
    ELSE selectedScheduleType = "daily"

TimeSorted(blocks) ==
    \A i \in 1..(Len(blocks) - 1) : StartOf(blocks[i]) <= StartOf(blocks[i + 1])

\* C27: the blocks of every set_schedule call are sorted by start time, and the
\* blocks are sorted after every split and every delete.
C27_SavedBlocksSorted ==
    /\ \A k \in 1..Len(setScheduleCalls) : TimeSorted(setScheduleCalls[k])
    /\ lastEvent \in {"addBlock", "deleteBlock"} => TimeSorted(editingBlocks)

\* C28: the drop of the block at position i on the block at position j
\* exchanges the two blocks, whole, and leaves every other position as it was;
\* a drop of a block on itself changes nothing and does not render.
C28_DropSwapsTwo ==
    lastEvent = "drop" =>
        LET i == argument[1] + 1
            j == argument[2] + 1
        IN /\ Len(editingBlocks) = Len(previousBlocks)
           /\ editingBlocks[i] = previousBlocks[j]
           /\ editingBlocks[j] = previousBlocks[i]
           /\ \A k \in 1..Len(editingBlocks) :
                  k \notin {i, j} => editingBlocks[k] = previousBlocks[k]
           /\ i = j => (editingBlocks = previousBlocks /\ renders = 0)

\* the first of three blocks was dropped on the last
C28_Witness ==
    /\ lastEvent = "drop"
    /\ argument = <<0, 2>>
    /\ previousBlocks = Partition({360, 1320})
    /\ editingBlocks = <<previousBlocks[3], previousBlocks[2], previousBlocks[1]>>

\* C30: once no get_schedule call is pending, the blocks are those of the call
\* made for the selected variant: the answer to an earlier selection's call,
\* arriving last, does not replace them.
C30_LatestSelectionWins ==
    (fetchPending = <<>> /\ lastEvent \in {"fetchResolved", "fetchRejected"})
        => loadedFor = Variant(selectedMode, selectedScheduleType)

\* C31: the answer to a get_schedule call that went out while the card was not
\* in editing mode, arriving after the user entered editing mode and changed
\* the blocks, does not replace the blocks.
C31_EditsSurviveEarlierFetch ==
    [][(/\ lastEvent' \in {"fetchResolved", "fetchRejected"}
        /\ isEditing /\ domEditing
        /\ lastEvent \in {"addBlock", "deleteBlock", "drop", "mouseup"}
        /\ editingBlocks # previousBlocks
        /\ \E k \in 1..Len(fetchPending) :
               /\ ~fetchPending[k].editing
               /\ fetchPending' = RemoveAt(fetchPending, k))
           => editingBlocks' = editingBlocks]_vars

\* C32: while the card is not in editing mode no key and no pointer input
\* changes the blocks; only the answer to a get_schedule call does.
C32_ReadOnlyOutsideEditing ==
    [][(~isEditing /\ lastEvent' \notin {"fetchResolved", "fetchRejected"})
           => editingBlocks' = editingBlocks]_vars

\* C33: selectedBlockIndex is null or the index of a block, in every state.
C33_SelectionInRange ==
    selectedBlockIndex = Null \/ selectedBlockIndex \in 0..(Len(editingBlocks) - 1)

\* C34: addBlock throws nothing; when there is no block to split it reports an
\* error and leaves the blocks and the selection as they are.
C34_AddBlockNeverThrows ==
    [][lastEvent' = "addBlock" =>
           /\ ~uncaught'
           /\ blockToSplit(editingBlocks, selectedBlockIndex) = 0 =>
                  /\ reported' # ""
                  /\ UNCHANGED <<editingBlocks, selectedBlockIndex>>]_vars

\* C35: addBlock splits the selected block when one is selected; when none
\* is, it splits a block of the longest duration, the earliest in time order
\* among those.  The split block keeps its position, start and temperature,
\* the new block follows it and every other block is as before.
C35_SplitsSelectedOrLongest ==
    [][(lastEvent' = "addBlock" /\ editingBlocks' # editingBlocks) =>
           \E b \in 1..Len(editingBlocks) :
               /\ IF selectedBlockIndex # Null
                  THEN b = selectedBlockIndex + 1
                  ELSE \A j \in 1..Len(editingBlocks) :
                           \/ Duration(editingBlocks[j]) < Duration(editingBlocks[b])
                           \/ /\ Duration(editingBlocks[j]) = Duration(editingBlocks[b])
                              /\ StartOf(editingBlocks[b]) <= StartOf(editingBlocks[j])
               /\ Len(editingBlocks') = Len(editingBlocks) + 1
               /\ \A k \in 1..(b - 1) : editingBlocks'[k] = editingBlocks[k]
               /\ \A k \in (b + 1)..Len(editingBlocks) : editingBlocks'[k + 1] = editingBlocks[k]
               /\ editingBlocks'[b].start_time = editingBlocks[b].start_time
               /\ editingBlocks'[b].temperature = editingBlocks[b].temperature
               /\ editingBlocks'[b].end_time # editingBlocks[b].end_time
               /\ editingBlocks'[b + 1].start_time = editingBlocks'[b].end_time]_vars

\* of three blocks of eight hours, the last dropped on the first, and none
\* selected, Add Block split the one from 00:00 to 08:00, at the end of the array
C35_Witness ==
    /\ lastEvent = "addBlock"
    /\ previousBlocks = <<Partition({480, 960})[3], Partition({480, 960})[2],
                          Partition({480, 960})[1]>>
    /\ Len(editingBlocks) = 4
    /\ editingBlocks[3].start_time = <<0, 0>>
    /\ editingBlocks[3].end_time = <<4, 0>>
    /\ editingBlocks[4].start_time = <<4, 0>>
    /\ selectedBlockIndex = 3

\* C36: the release ends the drag and changes no block: what the last move
\* wrote stays.  A move changes blocks only between a handle press and the
\* release that follows it.
C36_ReleaseEndsDrag ==
    [][/\ lastEvent' = "mouseup" => (drag.active /\ drag' = NoDrag /\ editingBlocks' = editingBlocks)
       /\ lastEvent' = "mousemove" => drag.active
       /\ (lastEvent = "mouseup" /\ lastEvent' # "mousedown") => ~drag'.active]_vars

\* the right handle of the first of three blocks was moved from 06:00 to 06:15
\* and released: the boundary is at 06:15
C36_Witness ==
    /\ lastEvent = "mouseup"
    /\ drag = NoDrag
    /\ renders = 1
    /\ editingBlocks = [Partition({360, 1320}) EXCEPT ![1].end_time = <<6, 15>>,
                                                       ![2].start_time = <<6, 15>>]

C38_EnabledOptionKeepsValid ==
    [][(/\ lastEvent' = "timeOption"
        /\ InvariantA(editingBlocks) /\ InvariantB(editingBlocks)
        /\ TimeSorted(editingBlocks))
           => LET index == argument'
                  field == IF typed'.isEndTime THEN "end_time" ELSE "start_time"
                  constraints == getTimeConstraints(editingBlocks, index, typed'.isEndTime)
                  picked == timeToMinutes(editingBlocks'[index + 1][field])
              IN /\ InvariantA(editingBlocks') /\ InvariantB(editingBlocks')
                 /\ TimeSorted(editingBlocks')
                 /\ NoShortBlock(editingBlocks')
                 /\ picked >= timeToMinutes(constraints.minTime)
                 /\ picked <= timeToMinutes(constraints.maxTime)
                 /\ Contiguous(editingBlocks')]_vars

\* C39: no change of a TaDIY entity or of the hub mode is lost to the panel's
\* render suppression: once the flag is cleared, a hass update leaves no
\* change that arrived under the flag unshown, even when that update carries
\* no further change.
C39_SuppressedChangeShown ==
    [][(lastEvent' = "panelHass" /\ ~hasOpenDialog) => ~suppressedChange']_vars

====
